---- MODULE Spec2Model ----
(***************************************************************************)
(* Invoice service of src/index.js: two MongoDB collections of invoices,    *)
(* sequential invoice numbers per prefix/year/month, payments with a        *)
(* derived status, a manual status override and delete.                     *)
(*                                                                          *)
(* Strings the code inspects (nomorInvoice) are sequences of one-character  *)
(* strings, so that the regular-expression prefix filter, MongoDB's string  *)
(* sort, split('/').pop(), parseInt and padStart are computed as the code   *)
(* computes them.  An optional request field is <<>> when absent and <<v>>  *)
(* when present.  Request numbers are integers.  namaKlien, noTelepon,      *)
(* tanggalInvoice and the payment date are carried through by the code      *)
(* without being read and are left out of the documents.                    *)
(***************************************************************************)
EXTENDS Integers, Sequences, FiniteSets, TLC

VARIABLES
    db,          \* collection name -> set of documents (the MongoDB database)
    now,         \* the wall clock read by new Date(): [year, month]
    oidCounter,  \* number of ObjectIds generated so far by new ObjectId()
    res,         \* the HTTP response of the latest request (sequential runs)
    issued,      \* history: scope -> suffix given by the latest create there
    procs        \* concurrent runs: request in flight -> its handler's state

vars == <<db, now, oidCounter, res, issued, procs>>

----------------------------------------------------------------------------
(* Bounds of the model *)

MaxInvoices == 2      \* creates in a run that only numbers invoices
MaxCreates  == 1      \* creates in a run with every request
MaxPayments == 2      \* payment records per invoice
MaxAmount   == 2      \* largest amount in a request
MaxTicks    == 1      \* month changes per run
NumProcs    == 2      \* requests in flight in a concurrent run

(* Program constants *)

SeqPadWidth   == 4    \* String(nextIdNumber).padStart(4, '0')
MonthPadWidth == 2    \* String(now.getMonth() + 1).padStart(2, '0')

----------------------------------------------------------------------------
(* JavaScript and MongoDB string operations *)

Digits == <<"0", "1", "2", "3", "4", "5", "6", "7", "8", "9">>

\* UTF-8 code of the characters that occur in invoice numbers
CharCode(c) ==
    CASE c = "/" -> 47
      [] c = "0" -> 48 [] c = "1" -> 49 [] c = "2" -> 50 [] c = "3" -> 51
      [] c = "4" -> 52 [] c = "5" -> 53 [] c = "6" -> 54 [] c = "7" -> 55
      [] c = "8" -> 56 [] c = "9" -> 57
      [] c = "I" -> 73 [] c = "N" -> 78 [] c = "P" -> 80 [] c = "S" -> 83
      [] c = "T" -> 84 [] c = "V" -> 86

IsDigit(c) == \E i \in 1..10 : Digits[i] = c

DigitValue(c) == (CHOOSE i \in 1..10 : Digits[i] = c) - 1

\* String(n) for an integer n >= 0
RECURSIVE NumberToString(_)
NumberToString(n) ==
    IF n < 10 THEN <<Digits[n + 1]>>
    ELSE Append(NumberToString(n \div 10), Digits[(n % 10) + 1])

\* s.padStart(width, '0')
RECURSIVE padStart(_, _)
padStart(s, width) ==
    IF Len(s) >= width THEN s ELSE padStart(<<"0">> \o s, width)

\* parseInt(s) for s with a leading digit: the value of its longest prefix of digits
RECURSIVE ParseDigits(_, _)
ParseDigits(s, acc) ==
    IF s = <<>> \/ ~IsDigit(Head(s)) THEN acc
    ELSE ParseDigits(Tail(s), acc * 10 + DigitValue(Head(s)))

parseInt(s) == ParseDigits(s, 0)

\* s.split('/').pop(): what follows the last '/' of s
RECURSIVE LastSegment(_)
LastSegment(s) ==
    IF \A i \in 1..Len(s) : s[i] # "/" THEN s
    ELSE LastSegment(Tail(s))

\* the regular expression ^p matches s (p holds no special character)
StartsWith(s, p) ==
    /\ Len(s) >= Len(p)
    /\ \A i \in 1..Len(p) : s[i] = p[i]

\* a < b in MongoDB's order of strings (simple binary comparison)
RECURSIVE StringLess(_, _)
StringLess(a, b) ==
    IF b = <<>> THEN FALSE
    ELSE IF a = <<>> THEN TRUE
    ELSE IF Head(a) # Head(b) THEN CharCode(Head(a)) < CharCode(Head(b))
    ELSE StringLess(Tail(a), Tail(b))

----------------------------------------------------------------------------
(* Optional request fields *)

Absent == <<>>
Some(v) == <<v>>

\* x || 0 : an absent or zero number gives 0
OrZero(x) == IF x = Absent THEN 0 ELSE x[1]

\* items.reduce((sum, item) => sum + (item.total || 0), 0), and the same over payments
RECURSIVE SumTotals(_)
SumTotals(items) ==
    IF items = <<>> THEN 0 ELSE OrZero(Head(items).total) + SumTotals(Tail(items))

RECURSIVE SumPaid(_)
SumPaid(payments) ==
    IF payments = <<>> THEN 0 ELSE Head(payments).amount + SumPaid(Tail(payments))

----------------------------------------------------------------------------
(* Requests the model sends *)

Types == {"hotel", "taxplus", "foo"}      \* the :type segment of the URL

Amounts == {Absent} \cup {Some(a) : a \in -1..MaxAmount}   \* downPayment, amount

ItemLists ==                               \* the items of a create
    { <<>>,
      <<[total |-> Some(MaxAmount)]>>,
      <<[total |-> Some(1)], [total |-> Absent]>> }

Ids == -1..MaxInvoices                     \* the :id segment; -1 is no ObjectId

validStatuses == {"lunas", "belum lunas", "dp lunas"}

StatusInputs == validStatuses \cup {"batal"}

NoId == -1
NoStatus == ""

\* res.status(code).json({message, data: insertedId, status})
Response(code, message, insertedId, status) ==
    [code |-> code, message |-> message, insertedId |-> insertedId,
     status |-> status]

\* a response that carries a message alone
Reply(code, message) == Response(code, message, NoId, NoStatus)

----------------------------------------------------------------------------
(* Helpers of the handlers *)

CollectionNames == {"hotel_invoices", "taxplus_invoices"}

\* the value no collection handle has: !collection holds of it alone
NoCollection == "undefined"

getCollection(type) ==
    IF type = "hotel" THEN "hotel_invoices" ELSE "taxplus_invoices"

ObjectIdIsValid(id) == id >= 0

\* const prefix = type === 'hotel' ? `INV/SV` : `INV/TP`
Prefix(type) ==
    IF type = "hotel" THEN <<"I", "N", "V", "/", "S", "V">>
    ELSE <<"I", "N", "V", "/", "T", "P">>

\* String(now.getMonth() + 1).padStart(2, '0')
MonthString(clock) == padStart(NumberToString(clock.month), MonthPadWidth)

\* `${prefix}/${year}/${month}/`
ScopeOf(prefix, clock) ==
    prefix \o <<"/">> \o NumberToString(clock.year) \o <<"/">>
           \o MonthString(clock) \o <<"/">>

\* `${prefix}/${year}/${month}/${nextId}`
FormatNomorInvoice(prefix, clock, nextIdNumber) ==
    ScopeOf(prefix, clock) \o padStart(NumberToString(nextIdNumber), SeqPadWidth)

\* the query sorted the other way, {sort: {nomorInvoice: 1}}
FindLastInvoiceAscending(docs, scope) ==
    LET matching == {d \in docs : StartsWith(d.nomorInvoice, scope)}
    IN  {d \in matching :
            \A e \in matching : ~StringLess(e.nomorInvoice, d.nomorInvoice)}

\* findOne({nomorInvoice: {$regex: `^scope`}}, {sort: {nomorInvoice: -1}}):
\* the documents the query may return; none when nothing matches
FindLastInvoice(docs, scope) ==
    LET matching == {d \in docs : StartsWith(d.nomorInvoice, scope)}
    IN  {d \in matching :
            \A e \in matching : ~StringLess(d.nomorInvoice, e.nomorInvoice)}

\* lastInvoice is <<>> (null) or <<d>>
NextIdNumber(lastInvoice) ==
    IF lastInvoice = Absent THEN 1
    ELSE parseInt(LastSegment(lastInvoice[1].nomorInvoice)) + 1

LastInvoiceChoices(docs, scope) ==
    IF FindLastInvoice(docs, scope) = {} THEN {Absent}
    ELSE {Some(d) : d \in FindLastInvoice(docs, scope)}

\* parseFloat(x) of a number x >= 0: the numeral of String(x)
parseFloat(x) == ParseDigits(NumberToString(x), 0)

\* const { downPayment = 0 } = req.body
DownPaymentOf(downPayment) ==
    IF downPayment = Absent THEN 0 ELSE downPayment[1]

InitialPayments(downPayment) ==
    IF downPayment > 0
    THEN <<[amount |-> parseFloat(downPayment), notes |-> "Uang Muka (DP)"]>>
    ELSE <<>>

\* 'lunas' only above the total
InitialStatusStrict(downPayment, totalAmount) ==
    IF downPayment > 0
    THEN IF downPayment > totalAmount THEN "lunas" ELSE "dp lunas"
    ELSE "belum lunas"

InitialStatus(downPayment, totalAmount) ==
    IF downPayment > 0
    THEN IF downPayment >= totalAmount THEN "lunas" ELSE "dp lunas"
    ELSE "belum lunas"

NewInvoice(id, nomorInvoice, items, downPayment, type, clock) ==
    [ _id          |-> id,
      nomorInvoice |-> nomorInvoice,
      items        |-> items,
      payments     |-> InitialPayments(downPayment),
      type         |-> type,
      status       |-> InitialStatus(downPayment, SumTotals(items)),
      createdAt    |-> clock ]

\* the collections with a unique index on nomorInvoice as well
InsertAcceptedUniqueNumber(docs, doc) ==
    \A d \in docs : d._id # doc._id /\ d.nomorInvoice # doc.nomorInvoice

\* insertOne(doc) is accepted unless it breaks a unique index; the collections
\* have the index on _id alone
InsertAccepted(docs, doc) == \A d \in docs : d._id # doc._id

\* insertOne(doc): the collection afterwards
InsertOne(docs, doc) == docs \cup {doc}

\* amount === undefined || amount < 0
InvalidAmountNegative(amount) == amount = Absent \/ amount[1] < 0

\* !amount || amount <= 0
InvalidAmount(amount) == amount = Absent \/ amount[1] = 0 \/ amount[1] <= 0

\* findOne({_id: id}): the matching documents
FindById(docs, id) == {d \in docs : d._id = id}

\* updateOne({_id: id}, {$push: {payments: newPayment}})
PushPayment(docs, id, newPayment) ==
    {IF d._id = id THEN [d EXCEPT !.payments = Append(@, newPayment)] ELSE d
        : d \in docs}

\* updateOne({_id: id}, {$set: {status: status}})
SetStatusOf(docs, id, status) ==
    {IF d._id = id THEN [d EXCEPT !.status = status] ELSE d : d \in docs}

\* the modifiedCount of the update's result instead
StatusModifiedCount(docs, id, status) ==
    Cardinality({d \in FindById(docs, id) : d.status # status})

\* the matchedCount the handler reads from the update's result
StatusUpdateCount(docs, id, status) == Cardinality(FindById(docs, id))

\* 'lunas' only above the total
DeriveStatusStrict(invoice) ==
    LET totalAmount == SumTotals(invoice.items)
        totalPaid   == SumPaid(invoice.payments)
    IN  IF totalPaid > totalAmount THEN "lunas"
        ELSE IF totalPaid > 0 THEN "dp lunas"
        ELSE "belum lunas"

\* the status the payment handler derives from the document it re-read
DeriveStatus(invoice) ==
    LET totalAmount == SumTotals(invoice.items)
        totalPaid   == SumPaid(invoice.payments)
    IN  IF totalPaid >= totalAmount THEN "lunas"
        ELSE IF totalPaid > 0 THEN "dp lunas"
        ELSE "belum lunas"

\* deleteOne with a filter that matches every document
DeleteOneAny(docs, id) ==
    IF docs = {} THEN docs ELSE docs \ {CHOOSE d \in docs : TRUE}

\* deleteOne({_id: id}): the collection afterwards
DeleteOne(docs, id) == {d \in docs : d._id # id}

----------------------------------------------------------------------------
(* The state the server starts in.  The database outlives the process: it is *)
(* empty, or holds what earlier runs left.  OldInvoice is an invoice of the  *)
(* current month with the last four-digit number, as left by that many       *)
(* creates (and deletes of all the others).                                  *)

StartClock == [year |-> 2026, month |-> 12]

RECURSIVE Pow10(_)
Pow10(n) == IF n = 0 THEN 1 ELSE 10 * Pow10(n - 1)

LastPadded == Pow10(SeqPadWidth) - 1

OldInvoice ==
    NewInvoice(0, FormatNomorInvoice(Prefix("taxplus"), StartClock, LastPadded),
               <<[total |-> Some(MaxAmount)]>>, 0, "taxplus", StartClock)

EmptyStore == [c \in CollectionNames |-> {}]

OldStore == [EmptyStore EXCEPT !["taxplus_invoices"] = {OldInvoice}]

NoResponse == Reply(0, "")

Idle == [pc |-> "idle"]

Init ==
    /\ now = StartClock
    /\ oidCounter = 0
    /\ res = NoResponse
    /\ procs = [p \in 1..NumProcs |-> Idle]
    /\ \/ /\ db = OldStore
          /\ issued = (ScopeOf(Prefix("taxplus"), StartClock) :> LastPadded)
       \/ db = EmptyStore /\ issued = <<>>

----------------------------------------------------------------------------
(* The handlers.  A handler run to completion (no other request in between)  *)
(* takes the store to a new store and answers: XHandler gives the outcomes  *)
(* [db, res] it can have from a store, and the action X applies one.        *)

Outcome(store, response) == [db |-> store, res |-> response]

\* app.post('/api/invoices/:type')
CreateHandler(store, clock, counter, type, items, downPayment) ==
    LET collection == getCollection(type)
        prefix     == Prefix(type)
        dp         == DownPaymentOf(downPayment)
    IN  IF collection = NoCollection
        THEN {Outcome(store, Reply(400, "Invalid invoice type"))}
        ELSE { LET nomorInvoice == FormatNomorInvoice(prefix, clock,
                                                      NextIdNumber(lastInvoice))
                   newInvoice   == NewInvoice(counter + 1, nomorInvoice, items,
                                              dp, type, clock)
               IN  IF InsertAccepted(store[collection], newInvoice)
                   THEN Outcome([store EXCEPT ![collection] = InsertOne(@, newInvoice)],
                                Response(201, "Invoice created successfully",
                                         newInvoice._id, NoStatus))
                   ELSE Outcome(store, Reply(500, "Failed to create invoice"))
               : lastInvoice \in LastInvoiceChoices(store[collection],
                                                    ScopeOf(prefix, clock)) }

Create(type, items, downPayment) ==
    /\ UNCHANGED <<now, procs>>
    /\ \E o \in CreateHandler(db, now, oidCounter, type, items, downPayment) :
        /\ db' = o.db
        /\ res' = o.res
        /\ oidCounter' = IF o.res.code = 400 THEN oidCounter ELSE oidCounter + 1
        /\ issued' = IF o.res.code = 201
                     THEN LET d == CHOOSE d \in o.db[getCollection(type)] :
                                        d._id = o.res.insertedId
                          IN  (ScopeOf(Prefix(type), now)
                                  :> parseInt(LastSegment(d.nomorInvoice))) @@ issued
                     ELSE issued

\* app.post('/api/invoices/:type/:id/payment').  The $push finds the document
\* findOne just returned, so its modifiedCount is 1 and the 500 is not answered.
AddPaymentHandler(store, type, id, amount) ==
    LET collection == getCollection(type)
    IN  IF collection = NoCollection
        THEN {Outcome(store, Reply(400, "Invalid invoice type"))}
        ELSE IF ~ObjectIdIsValid(id)
        THEN {Outcome(store, Reply(400, "Invalid ID"))}
        ELSE IF InvalidAmount(amount)
        THEN {Outcome(store, Reply(400, "Invalid payment amount"))}
        ELSE IF FindById(store[collection], id) = {}
        THEN {Outcome(store, Reply(404, "Invoice not found"))}
        ELSE LET newPayment == [amount |-> parseFloat(amount[1]),
                                notes  |-> "Pembayaran"]
                 pushed     == PushPayment(store[collection], id, newPayment)
             IN  { LET newStatus == DeriveStatus(updatedInvoice)
                   IN  Outcome([store EXCEPT ![collection] =
                                    SetStatusOf(pushed, id, newStatus)],
                               Response(200, "Payment added successfully",
                                        NoId, newStatus))
                   : updatedInvoice \in FindById(pushed, id) }

AddPayment(type, id, amount) ==
    /\ UNCHANGED <<now, oidCounter, issued, procs>>
    /\ \A d \in FindById(db[getCollection(type)], id) :
            Len(d.payments) < MaxPayments
    /\ \E o \in AddPaymentHandler(db, type, id, amount) :
            db' = o.db /\ res' = o.res

\* app.patch('/api/invoices/:type/:id/status')
SetStatusHandler(store, type, id, status) ==
    LET collection == getCollection(type)
    IN  IF collection = NoCollection
        THEN Outcome(store, Reply(400, "Invalid invoice type"))
        ELSE IF ~ObjectIdIsValid(id)
        THEN Outcome(store, Reply(400, "Invalid ID"))
        ELSE IF status \notin validStatuses
        THEN Outcome(store, Reply(400, "Invalid status value"))
        ELSE Outcome([store EXCEPT ![collection] = SetStatusOf(@, id, status)],
                     IF StatusUpdateCount(store[collection], id, status) = 0
                     THEN Reply(404, "Invoice not found")
                     ELSE Reply(200, "Invoice status updated successfully"))

SetStatus(type, id, status) ==
    /\ UNCHANGED <<now, oidCounter, issued, procs>>
    /\ db' = SetStatusHandler(db, type, id, status).db
    /\ res' = SetStatusHandler(db, type, id, status).res

\* the deletedCount the handler reads from the delete's result
DeletedCount(docs, id) == Cardinality(docs) - Cardinality(DeleteOne(docs, id))

\* app.delete('/api/invoices/:type/:id')
DeleteHandler(store, type, id) ==
    LET collection == getCollection(type)
    IN  IF collection = NoCollection
        THEN Outcome(store, Reply(400, "Invalid invoice type"))
        ELSE IF ~ObjectIdIsValid(id)
        THEN Outcome(store, Reply(400, "Invalid ID"))
        ELSE Outcome([store EXCEPT ![collection] = DeleteOne(@, id)],
                     IF DeletedCount(store[collection], id) = 0
                     THEN Reply(404, "Invoice not found")
                     ELSE Reply(200, "Invoice deleted successfully"))

Delete(type, id) ==
    /\ UNCHANGED <<now, oidCounter, issued, procs>>
    /\ db' = DeleteHandler(db, type, id).db
    /\ res' = DeleteHandler(db, type, id).res

\* the calendar month changes
Tick ==
    /\ (now.year - StartClock.year) * 12 + (now.month - StartClock.month) < MaxTicks
    /\ now' = IF now.month = 12 THEN [year |-> now.year + 1, month |-> 1]
              ELSE [now EXCEPT !.month = @ + 1]
    /\ UNCHANGED <<db, oidCounter, res, issued, procs>>

Next ==
    \/ \E type \in Types, items \in ItemLists, downPayment \in Amounts :
            oidCounter < MaxCreates /\ Create(type, items, downPayment)
    \/ \E type \in Types, id \in Ids, amount \in Amounts :
            AddPayment(type, id, amount)
    \/ \E type \in Types, id \in Ids, status \in StatusInputs :
            SetStatus(type, id, status)
    \/ \E type \in Types, id \in Ids : Delete(type, id)
    \/ Tick

Spec == Init /\ [][Next]_vars

\* runs that number invoices: creates with one body, deletes, month changes
NextNumbering ==
    \/ \E type \in Types, id \in Ids : Delete(type, id)
    \/ \E type \in Types :
            oidCounter < MaxInvoices /\ Create(type, <<>>, Absent)
    \/ Tick

SpecNumbering == Init /\ [][NextNumbering]_vars

----------------------------------------------------------------------------
(* The handlers under concurrent requests.  Every await of a handler is a    *)
(* step: the store executes one call, and the handler runs on to its next    *)
(* await or to its response.  Request p is handled once.                     *)

Procs == 1..NumProcs

Done(op, type, id, amount, response) ==
    [pc |-> "done", op |-> op, type |-> type, id |-> id, amount |-> amount,
     res |-> response]

\* create, up to the await of findOne: the clock is read
CreateStart(p, type, items, downPayment) ==
    /\ procs[p].pc = "idle"
    /\ UNCHANGED <<db, now, oidCounter, res, issued>>
    /\ procs' = [procs EXCEPT ![p] =
            IF getCollection(type) = NoCollection
            THEN Done("create", type, NoId, 0, Reply(400, "Invalid invoice type"))
            ELSE [pc |-> "findLast", op |-> "create", type |-> type,
                  items |-> items, downPayment |-> DownPaymentOf(downPayment),
                  clock |-> now]]

\* findOne of the last invoice, then up to the await of insertOne
CreateFindLast(p) ==
    /\ procs[p].pc = "findLast"
    /\ UNCHANGED <<db, now, res, issued>>
    /\ LET me         == procs[p]
           collection == getCollection(me.type)
           prefix     == Prefix(me.type)
       IN  \E lastInvoice \in LastInvoiceChoices(db[collection],
                                                 ScopeOf(prefix, me.clock)) :
             LET nomorInvoice == FormatNomorInvoice(prefix, me.clock,
                                                    NextIdNumber(lastInvoice))
             IN  /\ oidCounter' = oidCounter + 1
                 /\ procs' = [procs EXCEPT ![p] =
                        [pc |-> "insertOne", op |-> "create", type |-> me.type,
                         lastInvoice |-> lastInvoice,
                         newInvoice |-> NewInvoice(oidCounter + 1, nomorInvoice,
                                            me.items, me.downPayment, me.type, now)]]

\* insertOne, then the response
CreateInsertOne(p) ==
    /\ procs[p].pc = "insertOne"
    /\ UNCHANGED <<now, oidCounter, res, issued>>
    /\ LET me         == procs[p]
           collection == getCollection(me.type)
       IN  IF InsertAccepted(db[collection], me.newInvoice)
           THEN /\ db' = [db EXCEPT ![collection] = InsertOne(@, me.newInvoice)]
                /\ procs' = [procs EXCEPT ![p] =
                        [pc |-> "done", op |-> "create", type |-> me.type,
                         lastInvoice |-> me.lastInvoice,
                         newInvoice |-> me.newInvoice,
                         res |-> Response(201, "Invoice created successfully",
                                          me.newInvoice._id, NoStatus)]]
           ELSE /\ UNCHANGED db
                /\ procs' = [procs EXCEPT ![p] =
                        [pc |-> "done", op |-> "create", type |-> me.type,
                         lastInvoice |-> me.lastInvoice,
                         newInvoice |-> me.newInvoice,
                         res |-> Reply(500, "Failed to create invoice")]]

\* add-payment: the checks and findOne, then up to the await of the $push
PaymentFind(p, type, id, amount) ==
    /\ procs[p].pc = "idle"
    /\ UNCHANGED <<db, now, oidCounter, res, issued>>
    /\ LET collection == getCollection(type)
       IN  procs' = [procs EXCEPT ![p] =
            IF collection = NoCollection
            THEN Done("payment", type, id, 0, Reply(400, "Invalid invoice type"))
            ELSE IF ~ObjectIdIsValid(id)
            THEN Done("payment", type, id, 0, Reply(400, "Invalid ID"))
            ELSE IF InvalidAmount(amount)
            THEN Done("payment", type, id, 0, Reply(400, "Invalid payment amount"))
            ELSE IF FindById(db[collection], id) = {}
            THEN Done("payment", type, id, 0, Reply(404, "Invoice not found"))
            ELSE [pc |-> "push", op |-> "payment", type |-> type, id |-> id,
                  amount |-> parseFloat(amount[1])]]

\* updateOne with $push, then up to the await of the second findOne
PaymentPush(p) ==
    /\ procs[p].pc = "push"
    /\ UNCHANGED <<now, oidCounter, res, issued>>
    /\ LET me         == procs[p]
           collection == getCollection(me.type)
           newPayment == [amount |-> me.amount, notes |-> "Pembayaran"]
       IN  /\ db' = [db EXCEPT ![collection] = PushPayment(@, me.id, newPayment)]
           /\ procs' = [procs EXCEPT ![p] =
                IF FindById(db[collection], me.id) = {}     \* modifiedCount === 0
                THEN Done("payment", me.type, me.id, 0,
                          Reply(500, "Failed to add payment"))
                ELSE [me EXCEPT !.pc = "reread"]]

\* the second findOne, then up to the await of the $set
PaymentReread(p) ==
    /\ procs[p].pc = "reread"
    /\ UNCHANGED <<db, now, oidCounter, res, issued>>
    /\ LET me         == procs[p]
           collection == getCollection(me.type)
       IN  IF FindById(db[collection], me.id) = {}   \* null.items throws: caught
           THEN procs' = [procs EXCEPT ![p] =
                    Done("payment", me.type, me.id, me.amount,
                         Reply(500, "Failed to add payment"))]
           ELSE \E updatedInvoice \in FindById(db[collection], me.id) :
                    procs' = [procs EXCEPT ![p] =
                        [pc |-> "setStatus", op |-> "payment", type |-> me.type,
                         id |-> me.id, amount |-> me.amount,
                         newStatus |-> DeriveStatus(updatedInvoice)]]

\* updateOne with $set, then the response
PaymentSetStatus(p) ==
    /\ procs[p].pc = "setStatus"
    /\ UNCHANGED <<now, oidCounter, res, issued>>
    /\ LET me         == procs[p]
           collection == getCollection(me.type)
       IN  /\ db' = [db EXCEPT ![collection] = SetStatusOf(@, me.id, me.newStatus)]
           /\ procs' = [procs EXCEPT ![p] =
                Done("payment", me.type, me.id, me.amount,
                     Response(200, "Payment added successfully", NoId,
                              me.newStatus))]

\* set-status: one call of the store
StatusRequest(p, type, id, status) ==
    /\ procs[p].pc = "idle"
    /\ UNCHANGED <<now, oidCounter, res, issued>>
    /\ LET collection == getCollection(type)
       IN  IF \/ collection = NoCollection
              \/ ~ObjectIdIsValid(id)
              \/ status \notin validStatuses
           THEN /\ UNCHANGED db
                /\ procs' = [procs EXCEPT ![p] =
                        Done("status", type, id, 0,
                             IF collection = NoCollection
                             THEN Reply(400, "Invalid invoice type")
                             ELSE IF ~ObjectIdIsValid(id)
                             THEN Reply(400, "Invalid ID")
                             ELSE Reply(400, "Invalid status value"))]
           ELSE /\ db' = [db EXCEPT ![collection] = SetStatusOf(@, id, status)]
                /\ procs' = [procs EXCEPT ![p] =
                        Done("status", type, id, 0,
                             IF StatusUpdateCount(db[collection], id, status) = 0
                             THEN Reply(404, "Invoice not found")
                             ELSE Reply(200, "Invoice status updated successfully"))]

\* delete: one call of the store
DeleteRequest(p, type, id) ==
    /\ procs[p].pc = "idle"
    /\ UNCHANGED <<now, oidCounter, res, issued>>
    /\ LET collection == getCollection(type)
       IN  IF collection = NoCollection \/ ~ObjectIdIsValid(id)
           THEN /\ UNCHANGED db
                /\ procs' = [procs EXCEPT ![p] =
                        Done("delete", type, id, 0,
                             IF collection = NoCollection
                             THEN Reply(400, "Invalid invoice type")
                             ELSE Reply(400, "Invalid ID"))]
           ELSE /\ db' = [db EXCEPT ![collection] = DeleteOne(@, id)]
                /\ procs' = [procs EXCEPT ![p] =
                        Done("delete", type, id, 0,
                             IF DeletedCount(db[collection], id) = 0
                             THEN Reply(404, "Invoice not found")
                             ELSE Reply(200, "Invoice deleted successfully"))]

NextConc ==
    \/ \E p \in Procs, type \in Types : CreateStart(p, type, <<>>, Absent)
    \/ \E p \in Procs : CreateFindLast(p)
    \/ \E p \in Procs : CreateInsertOne(p)
    \/ \E p \in Procs, type \in Types, id \in Ids, amount \in Amounts :
            PaymentFind(p, type, id, amount)
    \/ \E p \in Procs : PaymentPush(p)
    \/ \E p \in Procs : PaymentReread(p)
    \/ \E p \in Procs : PaymentSetStatus(p)
    \/ \E p \in Procs, type \in Types, id \in Ids, status \in StatusInputs :
            StatusRequest(p, type, id, status)
    \/ \E p \in Procs, type \in Types, id \in Ids : DeleteRequest(p, type, id)
    \/ Tick

SpecConc == Init /\ [][NextConc]_vars

----------------------------------------------------------------------------
(* Vocabulary of the properties *)

\* the status the derivation rule gives a document
RuleStatus(d) ==
    IF SumPaid(d.payments) >= SumTotals(d.items) THEN "lunas"
    ELSE IF SumPaid(d.payments) > 0 THEN "dp lunas"
    ELSE "belum lunas"

\* the numeric suffix of an invoice number, and the scope before it
SuffixOf(nomorInvoice) == parseInt(LastSegment(nomorInvoice))

ScopePart(nomorInvoice) ==
    SubSeq(nomorInvoice, 1, Len(nomorInvoice) - Len(LastSegment(nomorInvoice)))

\* the step is a create that answered 201
CreatedStep ==
    oidCounter' # oidCounter /\ res'.message = "Invoice created successfully"

\* the step is an add-payment that answered 200
PaidStep == db' # db /\ res'.message = "Payment added successfully"

\* the documents a step wrote or changed in collection c
Written(c) == db'[c] \ db[c]

\* the suffix the previous create of the scope was given, 0 before the first
PreviousSuffix(scope) == IF scope \in DOMAIN issued THEN issued[scope] ELSE 0

----------------------------------------------------------------------------
(* C1: under requests handled one after the other, no two documents of a    *)
(* collection carry the same invoice number.                                *)
C1_UniqueInvoiceNumbers ==
    \A c \in CollectionNames : \A d, e \in db[c] :
        d.nomorInvoice = e.nomorInvoice => d = e

C3_StatusDerivedAfterCreateOrPayment ==
    [][(CreatedStep \/ PaidStep) =>
        \A c \in CollectionNames : \A d \in Written(c) :
            d.status = RuleStatus(d)]_vars

(* C3, amended: right after an add-payment, and right after a create with a  *)
(* positive down payment or a positive line-item total, the stored status   *)
(* is the derived one; a create without a positive down payment stores      *)
(* 'belum lunas' whatever the total.                                        *)
C3_StatusDerivedUnlessNothingOwed ==
    [][/\ PaidStep =>
            \A c \in CollectionNames : \A d \in Written(c) :
                d.status = RuleStatus(d) /\ res'.status = d.status
       /\ CreatedStep =>
            \A c \in CollectionNames : \A d \in Written(c) :
                IF d.payments # <<>> \/ SumTotals(d.items) > 0
                THEN d.status = RuleStatus(d)
                ELSE d.status = "belum lunas"]_vars

\* an add-payment just brought the payments of an invoice to exactly its total
C3_Witness ==
    /\ res.message = "Payment added successfully"
    /\ res.status = "lunas"
    /\ \E c \in CollectionNames : \E d \in db[c] :
          /\ Len(d.payments) = 2
          /\ SumPaid(d.payments) = SumTotals(d.items)
          /\ d.status = "lunas"

(* C4: a create stores no payment and 'belum lunas' when downPayment is 0 or *)
(* absent, one payment of downPayment and 'dp lunas' when 0 < downPayment < *)
(* total, one payment and 'lunas' when downPayment >= total and > 0.        *)
C4_CreateSeedsPaymentsAndStatus ==
    [][CreatedStep =>
        \A type \in Types, items \in ItemLists, downPayment \in Amounts :
            Create(type, items, downPayment) =>
                \E d \in Written(getCollection(type)) :
                    LET dp    == IF downPayment = Absent THEN 0 ELSE downPayment[1]
                        total == SumTotals(items)
                    IN  /\ d._id = res'.insertedId
                        /\ dp = 0 =>
                              d.payments = <<>> /\ d.status = "belum lunas"
                        /\ (0 < dp /\ dp < total) =>
                              /\ Len(d.payments) = 1
                              /\ d.payments[1].amount = dp
                              /\ d.status = "dp lunas"
                        /\ (dp > 0 /\ dp >= total) =>
                              /\ Len(d.payments) = 1
                              /\ d.payments[1].amount = dp
                              /\ d.status = "lunas"]_vars

\* a create with a down payment below the total was just stored
C4_Witness ==
    /\ res.message = "Invoice created successfully"
    /\ \E c \in CollectionNames : \E d \in db[c] :
          /\ d._id = res.insertedId
          /\ Len(d.payments) = 1
          /\ d.payments[1].amount < SumTotals(d.items)
          /\ d.status = "dp lunas"

(* C5: an add-payment with an absent or non-positive amount or a malformed   *)
(* id, and a set-status with a status outside the three or a malformed id,  *)
(* answer 400 and leave every document of both collections as it was.       *)
C5_InvalidRequestsWriteNothing ==
    /\ \A type \in Types, id \in Ids, amount \in Amounts :
            (id < 0 \/ amount = Absent \/ amount[1] <= 0) =>
                \A o \in AddPaymentHandler(db, type, id, amount) :
                    o.res.code = 400 /\ o.db = db
    /\ \A type \in Types, id \in Ids, status \in StatusInputs :
            (id < 0 \/ status \notin {"lunas", "belum lunas", "dp lunas"}) =>
                LET o == SetStatusHandler(db, type, id, status)
                IN  o.res.code = 400 /\ o.db = db

\* a request was just refused while an invoice without payments is stored
C5_Witness ==
    /\ res.code = 400
    /\ res.message = "Invalid payment amount"
    /\ \E c \in CollectionNames : \E d \in db[c] : d.payments = <<>>

(* C6: a create whose type is neither hotel nor the default fails and        *)
(* stores nothing, so the type of every stored document names the           *)
(* collection that holds it.                                                *)
C6_TypeNamesCollection ==
    \A c \in CollectionNames : \A d \in db[c] :
        \/ d.type = "hotel" /\ c = "hotel_invoices"
        \/ d.type = "taxplus" /\ c = "taxplus_invoices"

(* C7: a delete of an id no document of the collection has answers 404 and   *)
(* changes nothing; a delete of a stored document removes that document     *)
(* alone, and a second delete of the id answers 404 and changes nothing.    *)
C7_DeleteRemovesExactlyOne ==
    \A type \in Types, id \in Ids :
        id >= 0 =>
            LET c       == getCollection(type)
                matched == {d \in db[c] : d._id = id}
                first   == DeleteHandler(db, type, id)
                second  == DeleteHandler(first.db, type, id)
            IN  /\ IF matched = {}
                   THEN first.res.code = 404 /\ first.db = db
                   ELSE /\ first.res.code = 200
                        /\ Cardinality(matched) = 1
                        /\ first.db[c] = db[c] \ matched
                        /\ \A o \in CollectionNames \ {c} : first.db[o] = db[o]
                /\ second.res.code = 404
                /\ second.db = first.db

\* a delete just removed one invoice and left the other
C7_Witness ==
    /\ res.message = "Invoice deleted successfully"
    /\ oidCounter = 1
    /\ Cardinality(db["hotel_invoices"] \cup db["taxplus_invoices"]) = 1

(* C8: a set-status with a valid status on a stored invoice overwrites its   *)
(* status, whatever it was and whatever was paid, and changes nothing else  *)
(* of it or of any other document; on an id that matches nothing it answers *)
(* 404 and changes nothing.                                                 *)
C8_SetStatusOverwritesOnlyStatus ==
    \A type \in Types, id \in Ids, status \in {"lunas", "belum lunas", "dp lunas"} :
        id >= 0 =>
            LET c       == getCollection(type)
                matched == {d \in db[c] : d._id = id}
                o       == SetStatusHandler(db, type, id, status)
            IN  IF matched = {}
                THEN o.res.code = 404 /\ o.db = db
                ELSE /\ o.res.code = 200
                     /\ o.db[c] = (db[c] \ matched)
                                    \cup {[d EXCEPT !.status = status] : d \in matched}
                     /\ \A x \in CollectionNames \ {c} : o.db[x] = db[x]

\* an invoice with nothing paid and something owed was just set to 'lunas'
C8_Witness ==
    /\ res.message = "Invoice status updated successfully"
    /\ \E c \in CollectionNames : \E d \in db[c] :
          /\ d.status = "lunas"
          /\ d.payments = <<>>
          /\ SumTotals(d.items) > 0

(* C9: when two creates of one prefix/year/month both read the last number    *)
(* before either inserts, both are given the same number and both inserts   *)
(* succeed: an insert of a number a stored document already carries answers *)
(* 201 and adds its document beside the other; no duplicate is refused.     *)
C9_DuplicateInsertSucceeds ==
    [][\A p \in Procs :
        (procs[p].pc = "insertOne" /\ procs'[p].pc = "done") =>
            LET c   == getCollection(procs[p].type)
                doc == procs[p].newInvoice
            IN  /\ procs'[p].res.code = 201
                /\ procs'[p].res.insertedId = doc._id
                /\ db'[c] = db[c] \cup {doc}
                /\ \A d \in db[c] :
                      d.nomorInvoice = doc.nomorInvoice => d # doc /\ d \in db'[c]]_vars

\* two creates that read the same last invoice have both answered 201, and
\* their two documents are stored under one number
C9_Witness ==
    \E p, q \in Procs :
        /\ p # q
        /\ procs[p].pc = "done" /\ procs[q].pc = "done"
        /\ procs[p].op = "create" /\ procs[q].op = "create"
        /\ procs[p].res.code = 201 /\ procs[q].res.code = 201
        /\ procs[p].lastInvoice = procs[q].lastInvoice
        /\ \E c \in CollectionNames : \E d, e \in db[c] :
              /\ d._id = procs[p].res.insertedId
              /\ e._id = procs[q].res.insertedId
              /\ d._id # e._id
              /\ d.nomorInvoice = e.nomorInvoice

\* the add-payments that answered 200 for document d of collection c
PaidFor(c, d) ==
    {p \in Procs : /\ procs[p].pc = "done"
                   /\ procs[p].op = "payment"
                   /\ procs[p].res.code = 200
                   /\ getCollection(procs[p].type) = c
                   /\ procs[p].id = d._id}

RECURSIVE SumAmounts(_)
SumAmounts(ps) ==
    IF ps = {} THEN 0
    ELSE LET p == CHOOSE p \in ps : TRUE
         IN  procs[p].amount + SumAmounts(ps \ {p})

(* C10: under any interleaving of the store calls of concurrent add-payments *)
(* on one invoice, once all have answered and no set-status was applied,    *)
(* the payments hold every added payment and the stored status is the one   *)
(* derived from all of them.                                                *)
C10_PaymentsSettleToDerivedStatus ==
    (/\ \A p \in Procs : procs[p].pc \in {"idle", "done"}
     /\ \A p \in Procs : procs[p].pc = "done" => procs[p].op # "status")
    => \A c \in CollectionNames : \A d \in db[c] :
          PaidFor(c, d) # {} =>
              /\ Len(d.payments) = Cardinality(PaidFor(c, d))
              /\ SumPaid(d.payments) = SumAmounts(PaidFor(c, d))
              /\ d.status = RuleStatus(d)

====
